---------------------------- MODULE Spec2Model ----------------------------
(***************************************************************************)
(* Model of AutoDefineAddon/oxford.py: the class Word, its process-wide    *)
(* slot soup_data, the fetch operation get and the extraction operations   *)
(* that read (and sometimes rewrite) the parsed document.                  *)
(*                                                                         *)
(* Conventions.                                                            *)
(*  - A Python str is a sequence of tokens (TLA+ strings); " " is the      *)
(*    whitespace token, "/" the path separator, "_gb_" and "_us_" the      *)
(*    regional hints, "No exact match found" the no-match marker.          *)
(*  - A value that may be None is <<>> (None) or <<v>> (Some(v)).          *)
(*  - A Python dict is a function from its keys; an absent key is absent   *)
(*    from the DOMAIN.                                                     *)
(*  - An operation yields [exc, val, doc]: the exception that escapes it   *)
(*    ("none" when it returns), the returned value, and the document slot  *)
(*    as the operation leaves it.                                          *)
(***************************************************************************)
EXTENDS Naturals, Sequences, FiniteSets, TLC

VARIABLES soup_data, calls, fetched, last, memo, callers

vars == <<soup_data, calls, fetched, last, memo, callers>>

\* Number of get calls a behaviour may make.
MaxGets == 2

-----------------------------------------------------------------------------
\* Optional values and operation outcomes

None == <<>>
Some(v) == <<v>>
IsNone(o) == Len(o) = 0
The(o) == o[1]

\* the one element of a singleton set; Only({e(x) : x \in {v}}) is e(v) with v
\* evaluated once
Only(S) == CHOOSE y \in S : TRUE

\* what the caller of operation op observes of its outcome r
Observed(op, r) == [op |-> op, exc |-> r.exc, val |-> r.val]

Ret(v, doc) == [exc |-> "none", val |-> v, doc |-> doc]
Raise(e, doc) == [exc |-> e, val |-> None, doc |-> doc]

-----------------------------------------------------------------------------
\* Python str operations on token sequences

WS == " "

RECURSIVE lstrip(_)
lstrip(s) == IF Len(s) > 0 /\ Head(s) = WS THEN lstrip(Tail(s)) ELSE s

RECURSIVE rstrip(_)
rstrip(s) ==
    IF Len(s) > 0 /\ s[Len(s)] = WS THEN rstrip(SubSeq(s, 1, Len(s) - 1)) ELSE s

\* str.strip()
strip(s) == rstrip(lstrip(s))

\* substring test `tok in s`
Contains(s, tok) == \E i \in DOMAIN s : s[i] = tok

\* str.startswith('No exact match found')
NoExactMarker == "No exact match found"
startswith_no_exact(s) == Len(s) > 0 /\ s[1] = NoExactMarker

\* ' '.join(parts)
RECURSIVE join(_)
join(parts) ==
    IF Len(parts) = 0 THEN <<>>
    ELSE IF Len(parts) = 1 THEN parts[1]
    ELSE parts[1] \o <<WS>> \o join(Tail(parts))

\* concatenation of a sequence of strings
RECURSIVE concat(_)
concat(parts) == IF Len(parts) = 0 THEN <<>> ELSE Head(parts) \o concat(Tail(parts))

\* index of the last "/" of a link, 0 when it has none
RECURSIVE last_slash(_, _)
last_slash(link, i) ==
    IF i = 0 THEN 0 ELSE IF link[i] = "/" THEN i ELSE last_slash(link, i - 1)

\* Word.extract_id: link.split('/')[-1]
extract_id(link) == SubSeq(link, last_slash(link, Len(link)) + 1, Len(link))

\* Word.get_url
get_url(word, is_search) ==
    IF is_search
    THEN <<"https:", "/", "/", "www.oxfordlearnersdictionaries.com", "/",
           "search", "/", "english", "/", "?q=", word>>
    ELSE <<"https:", "/", "/", "www.oxfordlearnersdictionaries.com", "/",
           "definition", "/", "english", "/", word>>


-----------------------------------------------------------------------------
\* The document tree, reduced to the regions the selectors of Word address.
\*
\*  heading       '#search-results > h1': None or its child nodes
\*  titled        the title attributes carried by elements of the page
\*  entry         '#entryContent > .entry': None or [id: the id attribute]
\*  header        '.top-container': None or
\*                  [headword: None or the child nodes of '.headword',
\*                   pos: None or the text of '.pos',
\*                   grammar: None or the text of '.grammar',
\*                   xrefs: the 'a' elements under '.xrefs']
\*  phon          '[geo=br] .phon' / '[geo=n_am] .phon': None or its text
\*  audio         data-src-ogg / data-src-mp3 per region: None or the value
\*  verb_rows     'tr.verb_form[form]': [form, td: None or
\*                  [prefix: None or the text of 'span.vf_prefix', rest]]
\*  multi         '.senses_multiple': [groups: its '.shcut-g' children
\*                  [label: None or the text of 'h2.shcut', senses],
\*                   senses: its '.sense' elements outside any group]
\*  single        '.sense_single': [senses]
\*  idiom_blocks  '.idioms > .idm-g'
\*  pv_links      '.phrasal_verb_links a'
\*  related       '#rightcolumn #relatedentries': None or [dts, dds]
\*
\* An 'a' element is [href: None or the link, text, xh: None or '.xh' text].

TextNode(s) == [kind |-> "text", s |-> s, kids |-> <<>>]
TagNode(kids) == [kind |-> "tag", s |-> <<>>, kids |-> kids]
SpanNode(s) == [kind |-> "span", s |-> s, kids |-> <<>>]

Anchor(href, txt) == [href |-> Some(href), text |-> txt, xh |-> Some(txt)]
AnchorNoHref(txt) == [href |-> None, text |-> txt, xh |-> Some(txt)]
AnchorNoXh(href, txt) == [href |-> Some(href), text |-> txt, xh |-> None]

Sense(def, exs) ==
    [grammar |-> None, labels |-> None, disg |-> None, xrefs |-> <<>>,
     def |-> def, examples |-> exs, unx |-> <<>>]

\* Tag.string of bs4: the text of a lone text child, the .string of a lone
\* element child, None for no child or several children.
RECURSIVE string(_)
string(kids) ==
    IF Len(kids) # 1 THEN None
    ELSE IF kids[1].kind = "text" THEN Some(kids[1].s)
    ELSE string(kids[1].kids)

\* Tag.text of bs4: all text below, concatenated in document order.
RECURSIVE text(_)
text(kids) ==
    IF Len(kids) = 0 THEN <<>>
    ELSE (IF kids[1].kind = "tag" THEN text(kids[1].kids) ELSE kids[1].s)
         \o text(Tail(kids))

\* The title attributes Word.get removes (oxford.py, lines 128-132).
SanitizedTitles ==
    <<"Oxford Collocations Dictionary", "British/American", "Express Yourself",
      "Collocations", "Word Origin">>

Link(seg) == <<"https:", "/", "/", "host", "/", "definition", "/", "english", "/">> \o seg

BasePage ==
    [heading |-> None,
     titled |-> {},
     entry |-> Some([id |-> Some(<<"go_1">>)]),
     header |-> Some([headword |-> Some(<<TextNode(<<WS, "go">>), SpanNode(<<"1">>),
                                         TextNode(<<WS>>)>>),
                      pos |-> Some(<<"verb">>),
                      grammar |-> None,
                      xrefs |-> <<>>]),
     phon |-> [br |-> Some(<<"/g@U/">>), am |-> Some(<<"/goU/">>)],
     audio |-> [brOgg |-> Some(<<"go", "_gb_", "1.ogg">>),
                amOgg |-> Some(<<"go", "_us_", "1.ogg">>),
                brMp3 |-> Some(<<"go", "_gb_", "1.mp3">>),
                amMp3 |-> Some(<<"go", "_us_", "1.mp3">>)],
     verb_rows |-> <<>>,
     multi |-> <<>>,
     single |-> <<[senses |-> <<Sense(Some(<<"to", WS, "move">>), <<<<"go", WS, "home">>>>)>>]>>,
     idiom_blocks |-> <<>>,
     pv_links |-> <<>>,
     related |-> None]

\* field of the header of the base page replaced
WithHeader(f, v) == [BasePage EXCEPT !.header = Some([The(BasePage.header) EXCEPT ![f] = v])]

\* --- pages of the search/no-match family: heading x titled
Headings ==
    << <<TextNode(<<NoExactMarker, WS, "for", WS, "x">>)>>,
       <<TextNode(<<NoExactMarker, WS, "for", WS>>), TagNode(<<TextNode(<<"x">>)>>)>>,
       <<TagNode(<<TextNode(<<NoExactMarker>>)>>)>>,
       <<TextNode(<<"Search", WS, "results">>)>>,
       <<>> >>

TitleSets ==
    << {"Word Origin", "Extra examples"},
       {"Oxford Collocations Dictionary", "British/American", "Express Yourself",
        "Collocations", "Word Origin"} >>

HeadingPages ==
    [i \in 1..Len(Headings) |-> [BasePage EXCEPT !.heading = Some(Headings[i])]]
    \o [i \in 1..Len(Headings) |->
          [BasePage EXCEPT !.heading = Some(Headings[i]), !.titled = TitleSets[1]]]
    \o [i \in 1..Len(TitleSets) |-> [BasePage EXCEPT !.titled = TitleSets[i]]]

\* --- entry root and header
HeaderPages ==
    << [BasePage EXCEPT !.entry = None],
       [BasePage EXCEPT !.entry = Some([id |-> None])],
       [BasePage EXCEPT !.header = None],
       WithHeader("headword", None),
       WithHeader("headword", Some(<<TextNode(<<"go">>)>>)),
       WithHeader("pos", None),
       WithHeader("pos", Some(<<"noun">>)),
       WithHeader("pos", Some(<<"verb", WS>>)),
       WithHeader("grammar", Some(<<"[transitive]">>)),
       WithHeader("grammar", Some(<<>>)),
       WithHeader("xrefs", <<Anchor(Link(<<"went_1">>), <<"went">>)>>),
       WithHeader("xrefs", <<AnchorNoHref(<<"went">>)>>) >>

\* --- pronunciation regions
WithPron(brPhon, amPhon, brOgg, amOgg, brMp3, amMp3) ==
    [BasePage EXCEPT !.phon = [br |-> brPhon, am |-> amPhon],
                     !.audio = [brOgg |-> brOgg, amOgg |-> amOgg,
                                brMp3 |-> brMp3, amMp3 |-> amMp3]]

FileGb == <<"go", "_gb_", "1">>
FileUs == <<"go", "_us_", "1">>
FilePlain == <<"go", "1">>
FileBoth == <<"go", "_us_", "_gb_", "1">>

PronPages ==
    << WithPron(None, None, Some(FileGb), Some(FileUs), Some(FileGb), Some(FileUs)),
       WithPron(None, None, Some(FileUs), Some(FileGb), Some(FileGb), Some(FileUs)),
       WithPron(None, None, Some(FilePlain), Some(FilePlain), Some(FilePlain), Some(FilePlain)),
       WithPron(None, None, Some(FilePlain), Some(<<>>), Some(FileGb), Some(FileUs)),
       WithPron(None, None, Some(FileBoth), Some(FileBoth), Some(FilePlain), Some(FilePlain)),
       WithPron(None, None, Some(FilePlain), Some(FileUs), None, None),
       WithPron(None, None, Some(FileGb), None, Some(FileGb), Some(FileUs)),
       WithPron(None, None, Some(FileGb), Some(FilePlain), Some(FileGb), None),
       WithPron(None, None, None, Some(FileUs), Some(FileGb), Some(FileUs)),
       WithPron(None, None, Some(<<>>), Some(<<>>), Some(<<>>), Some(<<>>)),
       WithPron(Some(<<"/g@U/">>), None, Some(FileGb), Some(FileUs), Some(FileGb), Some(FileUs)),
       WithPron(None, Some(<<"/goU/">>), Some(FilePlain), Some(FileGb), Some(FileUs), Some(FilePlain)),
       WithPron(Some(<<"/g@U/">>), Some(<<"/goU/">>), Some(FileUs), Some(FileGb), None, None),
       WithPron(Some(<<"/g@U/">>), Some(<<"/goU/">>), None, None, None, None),
       WithPron(None, None, None, None, None, None) >>

\* --- verb-form table
Row(form, prefix, rest) == [form |-> form, td |-> Some([prefix |-> prefix, rest |-> rest])]
RowNoTd(form) == [form |-> form, td |-> None]

VerbPages ==
    << [BasePage EXCEPT !.verb_rows =
            <<Row("past", Some(<<"past", WS, "simple">>), <<WS, "went", WS>>)>>],
       [BasePage EXCEPT !.verb_rows =
            <<Row("past", Some(<<"past", WS, "simple">>), <<WS, "went", WS>>),
              Row("thirdps", Some(<<"he", WS>>), <<"goes">>)>>],
       [BasePage EXCEPT !.verb_rows =
            <<Row("past", Some(<<"past", WS, "simple">>), <<WS, "went", WS>>),
              Row("pastpart", None, <<"gone">>)>>],
       [BasePage EXCEPT !.verb_rows =
            <<Row("past", Some(<<>>), <<"went">>), RowNoTd("pastpart")>>],
       [WithHeader("pos", Some(<<"noun">>)) EXCEPT !.verb_rows =
            <<Row("past", Some(<<"past", WS, "simple">>), <<"went">>)>>] >>

\* --- idiom blocks and phrasal-verb links
Idiom(idml, idm, senses) ==
    [idml |-> idml, idm |-> idm, labels |-> None, disg |-> None, xrefs |-> <<>>,
     senses |-> senses]

IdiomPages ==
    << [BasePage EXCEPT !.idiom_blocks =
            <<Idiom(Some(<<"go", WS, "far">>), None, <<Sense(Some(<<"succeed">>), <<>>)>>)>>],
       [BasePage EXCEPT !.idiom_blocks =
            <<[Idiom(None, Some(<<"on", WS, "the", WS, "go">>), <<Sense(None, <<<<"busy">>>>)>>)
                 EXCEPT !.labels = Some(<<"(informal)">>),
                        !.xrefs = <<Anchor(Link(<<"busy_1">>), <<"busy">>)>>]>>],
       [BasePage EXCEPT !.idiom_blocks =
            <<Idiom(Some(<<"go", WS, "far">>), None, <<>>), Idiom(None, None, <<>>)>>] >>

PhrasalPages ==
    << [BasePage EXCEPT !.pv_links = <<Anchor(Link(<<"go-on">>), <<"go", WS, "on">>)>>],
       [BasePage EXCEPT !.pv_links = <<AnchorNoXh(Link(<<"go-on">>), <<"go", WS, "on">>)>>],
       [BasePage EXCEPT !.pv_links = <<AnchorNoHref(<<"go", WS, "on">>)>>],
       [WithHeader("pos", Some(<<"noun">>)) EXCEPT !.pv_links =
            <<AnchorNoXh(Link(<<"go-on">>), <<"go", WS, "on">>)>>] >>

\* --- related-entries box
\* A list item: the direct text runs of its first span (None: no span), the
\* text of its <pos> element (None: no such element) and its 'a' elements.
Item(runs, pos, links) == [span |-> runs, pos |-> pos, links |-> links]
Related(dts, dds) == [BasePage EXCEPT !.related = Some([dts |-> dts, dds |-> dds])]

ItemGo == Item(Some(<<<<"go", WS>>>>), Some(<<"noun">>), <<Anchor(Link(<<"go_2">>), <<"go">>)>>)
ItemGoOn == Item(Some(<<<<"go">>, <<WS, "on">>>>), None, <<Anchor(Link(<<"go-on">>), <<"go on">>)>>)
ItemBlank == Item(Some(<<<<WS>>>>), None, <<Anchor(Link(<<"blank">>), <<WS>>)>>)
ItemEmpty == Item(Some(<<>>), None, <<Anchor(Link(<<"empty">>), <<>>)>>)
ItemNoLink == Item(Some(<<<<"gone">>>>), None, <<>>)
ItemTwoLinks ==
    Item(Some(<<<<"going">>>>), None,
         <<Anchor(Link(<<"going_1">>), <<"going">>), Anchor(Link(<<"going_2">>), <<"going">>)>>)
ItemNoSpan == Item(None, None, <<Anchor(Link(<<"go_3">>), <<"go">>)>>)
ItemNoHref == Item(Some(<<<<"goer">>>>), None, <<AnchorNoHref(<<"goer">>)>>)

RelatedPages ==
    << Related(<<<<"All matches">>>>, <<<<ItemGo, ItemGoOn>>>>),
       Related(<<<<"All matches">>, <<"Idioms">>>>, <<<<ItemGo>>, <<ItemGoOn>>>>),
       Related(<<<<"All matches">>>>, <<<<ItemGo, ItemBlank, ItemGoOn>>>>),
       Related(<<<<"All matches">>>>, <<<<ItemEmpty, ItemGo>>>>),
       Related(<<<<"All matches">>>>, <<<<ItemNoLink, ItemGo>>>>),
       Related(<<<<"All matches">>>>, <<<<ItemTwoLinks, ItemGo>>>>),
       Related(<<<<"All matches">>>>, <<<<ItemGo, ItemNoSpan>>>>),
       Related(<<<<"All matches">>>>, <<<<ItemGo, ItemNoHref>>>>),
       Related(<<<<"All matches">>, <<"Idioms">>>>, <<<<ItemGo>>>>),
       Related(<<>>, <<>>) >>

\* --- sense containers
SenseA == Sense(Some(<<"to", WS, "move">>), <<<<"go", WS, "home">>>>)
SenseB ==
    [Sense(None, <<>>) EXCEPT !.grammar = Some(<<"[intransitive]">>),
                              !.xrefs = <<Anchor(Link(<<"leave_1">>), <<"leave">>)>>]
SenseC ==
    [Sense(Some(<<"to", WS, "leave">>), <<<<"let's", WS, "go">>>>)
        EXCEPT !.labels = Some(<<"(informal)">>), !.disg = Some(<<"(of", WS, "people)">>),
               !.unx = <<<<"time", WS, "to", WS, "go">>>>]
Group(label, senses) == [label |-> label, senses |-> senses]
Multi(groups, senses) == [groups |-> groups, senses |-> senses]
Single(senses) == [senses |-> senses]

SensePages ==
    << [BasePage EXCEPT !.multi =
            <<Multi(<<Group(Some(<<"move">>), <<SenseA, SenseB>>), Group(None, <<SenseC>>)>>, <<>>)>>,
                        !.single = <<>>],
       [BasePage EXCEPT !.multi = <<Multi(<<>>, <<SenseA, SenseC>>)>>],
       [BasePage EXCEPT !.multi = <<Multi(<<>>, <<>>)>>, !.single = <<Single(<<SenseB>>)>>],
       [BasePage EXCEPT !.multi = <<>>, !.single = <<>>],
       [BasePage EXCEPT !.multi =
            <<Multi(<<Group(Some(<<"move">>), <<SenseA>>)>>, <<SenseC>>),
              Multi(<<Group(None, <<>>)>>, <<>>)>>] >>

\* What a parsed response body may be.
Pages ==
    <<BasePage>> \o HeadingPages \o HeaderPages \o PronPages \o VerbPages
    \o IdiomPages \o PhrasalPages \o RelatedPages \o SensePages

EmptyPage ==
    [heading |-> None, titled |-> {}, entry |-> None, header |-> None,
     phon |-> [br |-> None, am |-> None],
     audio |-> [brOgg |-> None, amOgg |-> None, brMp3 |-> None, amMp3 |-> None],
     verb_rows |-> <<>>, multi |-> <<>>, single |-> <<>>, idiom_blocks |-> <<>>,
     pv_links |-> <<>>, related |-> None]

\* What the server may answer to the GET of Word.get: any page with status
\* 200, and error statuses with some body.
Responses ==
    [i \in 1..Len(Pages) |-> [status |-> 200, content |-> Pages[i]]]
    \o << [status |-> 200, content |-> EmptyPage],
          [status |-> 404, content |-> EmptyPage],
          [status |-> 404, content |-> BasePage],
          [status |-> 404, content |-> [BasePage EXCEPT !.heading = Some(Headings[4])]],
          [status |-> 500, content |-> EmptyPage] >>

Words == {"go", "xyzzy"}

\* The entry page of a word: its entry id and headword are the word's.
EntryPage(word) ==
    [BasePage EXCEPT
        !.entry = Some([id |-> Some(<<word, "_1">>)]),
        !.header = Some([The(BasePage.header) EXCEPT
                            !.headword = Some(<<TextNode(<<word>>), SpanNode(<<"1">>)>>)])]

\* What the server may answer to the GET for one word: its entry page, its
\* entry page with a verb-forms table, a 404, the no-match page.
WordResponses(word) ==
    << [status |-> 200, content |-> EntryPage(word)],
       [status |-> 200, content |-> [EntryPage(word) EXCEPT !.verb_rows =
            <<Row("past", Some(<<"past", WS, "simple">>), <<WS, word, "ed">>)>>]],
       [status |-> 404, content |-> EmptyPage],
       [status |-> 200, content |-> [EmptyPage EXCEPT !.heading = Some(Headings[1])]] >>

\* the call sites that use the class Word
Callers == {"A", "B"}

-----------------------------------------------------------------------------
\* Word.soup_data holds None or Some([src, tree]): the parsed tree and, as a
\* label only, the number of the get call whose response it was parsed from.

Tree(slot) == The(slot).tree
WithTree(slot, tree) == Some([The(slot) EXCEPT !.tree = tree])

\* soup(page_html.content, 'html.parser')
soup(content, n) == Some([src |-> n, tree |-> content])

\* Word.delete: decompose every element matching [title="<title>"]
delete(slot, title) ==
    WithTree(slot, [Tree(slot) EXCEPT !.titled = @ \ {title}])

parse_word_no_404(slot, page_html, n) ==
    LET stored == soup(page_html.content, n)
        no_exact == Tree(stored).heading
    IN  IF ~IsNone(no_exact) /\ IsNone(string(The(no_exact)))
        THEN Raise("AttributeError", stored)
        ELSE IF ~IsNone(no_exact) /\ startswith_no_exact(The(string(The(no_exact))))
        THEN Raise("WordNotFound", stored)
        ELSE Ret(None, stored)

\* Word.__parse_word
parse_word(slot, page_html, n) ==
    IF page_html.status = 404 THEN Raise("WordNotFound", slot)
    ELSE LET stored == soup(page_html.content, n)
             no_exact == Tree(stored).heading
         IN  IF ~IsNone(no_exact) /\ IsNone(string(The(no_exact)))
             THEN Raise("AttributeError", stored)    \* None.startswith
             ELSE IF ~IsNone(no_exact) /\ startswith_no_exact(The(string(The(no_exact))))
             THEN Raise("WordNotFound", stored)
             ELSE Ret(None, stored)

RECURSIVE delete_all(_, _)
delete_all(slot, titles) ==
    IF Len(titles) = 0 THEN slot
    ELSE delete_all(delete(slot, Head(titles)), Tail(titles))

\* Word.get; page_html is the server's answer to the GET of get_url(word, is_search),
\* n the number of this call.
get(slot, page_html, n) ==
    LET parsed == parse_word(slot, page_html, n)
    IN  IF parsed.exc # "none" THEN parsed
        ELSE IF ~IsNone(parsed.doc)
        THEN Ret(None, delete_all(parsed.doc, SanitizedTitles))
        ELSE Ret(None, parsed.doc)

-----------------------------------------------------------------------------
\* Extraction operations

EmptyDict == <<>>
Min(a, b) == IF a < b THEN a ELSE b

\* the loop of Word.verb_forms from row i on: [ok, rows, result], ok = FALSE
\* when an IndexError ended it; rows are the rows as the loop leaves them
RECURSIVE verb_forms_loop(_, _, _)
verb_forms_loop(rows, i, result) ==
    IF i > Len(rows) THEN [ok |-> TRUE, rows |-> rows, result |-> result]
    ELSE IF IsNone(rows[i].td) \/ IsNone(The(rows[i].td).prefix)
    THEN [ok |-> FALSE, rows |-> rows, result |-> result]
    ELSE LET value == The(rows[i].td)
             prefix == The(value.prefix)
             stripped == [value EXCEPT !.prefix = None]      \* span_tag.replace_with('')
         IN  verb_forms_loop(
                 [rows EXCEPT ![i].td = Some(stripped)], i + 1,
                 (rows[i].form :> [prefix |-> prefix, value |-> strip(stripped.rest)])
                     @@ result)

\* Word.verb_forms
verb_forms(slot) ==
    IF IsNone(slot) THEN Ret(None, slot)
    ELSE LET r == verb_forms_loop(Tree(slot).verb_rows, 1, EmptyDict)
             after == WithTree(slot, [Tree(slot) EXCEPT !.verb_rows = r.rows])
         IN  IF r.ok THEN Ret(Some(r.result), after) ELSE Ret(None, after)

\* names of one list item: the text runs of its first span, then the <pos> text or ''
item_names(item) ==
    The(item.span) \o <<IF IsNone(item.pos) THEN <<>> ELSE The(item.pos)>>

RECURSIVE all_links(_)
all_links(items) ==
    IF Len(items) = 0 THEN <<>> ELSE Head(items).links \o all_links(Tail(items))

\* one record of a related-entries list (oxford.py, lines 202-211)
other_result_record(other_result, ident) ==
    [name |-> join([k \in 1..(Len(other_result) - 1) |-> strip(other_result[k])]),
     id |-> ident,
     wordform |-> strip(other_result[Len(other_result)])]

\* the loop over the heading/list pairs from pair k on: [exc, info]
RECURSIVE other_results_loop(_, _, _, _)
other_results_loop(dts, dds, k, acc) ==
    IF k > Min(Len(dts), Len(dds)) THEN [exc |-> "none", info |-> acc]
    ELSE LET items == dds[k]
             links == all_links(items)
         IN  IF \E j \in 1..Len(items) : IsNone(items[j].span)
             THEN [exc |-> "IndexError", info |-> acc]
             ELSE IF \E j \in 1..Len(links) : IsNone(links[j].href)
             THEN [exc |-> "KeyError", info |-> acc]
             ELSE LET names == [j \in 1..Len(items) |-> item_names(items[j])]
                      kept == SelectSeq(names, LAMBDA x : Len(x) > 0)
                      ids == [j \in 1..Len(links) |-> extract_id(The(links[j].href))]
                      results == [j \in 1..Min(Len(kept), Len(ids)) |->
                                     other_result_record(kept[j], ids[j])]
                  IN  other_results_loop(dts, dds, k + 1,
                                         Append(acc, dts[k] :> results))

\* Word.other_results
other_results(slot) ==
    IF IsNone(slot) THEN Raise("AttributeError", slot)     \* None.select
    ELSE IF IsNone(Tree(slot).related) THEN Ret(None, slot)
    ELSE LET box == The(Tree(slot).related)
             r == other_results_loop(box.dts, box.dds, 1, <<>>)
         IN  IF r.exc # "none" THEN Raise(r.exc, slot) ELSE Ret(Some(r.info), slot)

\* for span_tag in name.select('span'): span_tag.replace_with('')
strip_spans(kids) ==
    [i \in 1..Len(kids) |-> IF kids[i].kind = "span" THEN TextNode(<<>>) ELSE kids[i]]

\* Word.name
name(slot) ==
    IF IsNone(slot) THEN Ret(None, slot)
    ELSE IF IsNone(Tree(slot).header) \/ IsNone(The(Tree(slot).header).headword)
    THEN Raise("IndexError", slot)
    ELSE LET header == The(Tree(slot).header)
             kids == strip_spans(The(header.headword))
             after == WithTree(slot, [Tree(slot) EXCEPT
                          !.header = Some([header EXCEPT !.headword = Some(kids)])])
         IN  Ret(Some(strip(text(kids))), after)

\* Word.id
id(slot) ==
    IF IsNone(slot) THEN Ret(None, slot)
    ELSE IF IsNone(Tree(slot).entry) THEN Raise("IndexError", slot)
    ELSE IF IsNone(The(Tree(slot).entry).id) THEN Raise("KeyError", slot)
    ELSE Ret(The(Tree(slot).entry).id, slot)

\* Word.wordform
wordform(slot) ==
    IF IsNone(slot) THEN Ret(None, slot)
    ELSE IF IsNone(Tree(slot).header) THEN Ret(None, slot)
    ELSE Ret(The(Tree(slot).header).pos, slot)

\* Word.property_global
property_global(slot) ==
    IF IsNone(slot) THEN Ret(None, slot)
    ELSE IF IsNone(Tree(slot).header) THEN Ret(None, slot)
    ELSE Ret(The(Tree(slot).header).grammar, slot)

get_prefix_from_filename_swapped(filename) ==
    IF Contains(filename, "_gb_") THEN Some("NAmE")
    ELSE IF Contains(filename, "_us_") THEN Some("BrE")
    ELSE None

\* Word.get_prefix_from_filename, of a str
get_prefix_from_filename(filename) ==
    IF Contains(filename, "_gb_") THEN Some("BrE")
    ELSE IF Contains(filename, "_us_") THEN Some("NAmE")
    ELSE None

\* Python truth of an optional str
Truthy(o) == ~IsNone(o) /\ Len(The(o)) > 0

\* get_prefix_from_filename(ogg) or get_prefix_from_filename(mp3): [exc, val];
\* `'_gb_' in None` is a TypeError
prefix_from_files(ogg, mp3) ==
    IF IsNone(ogg) THEN [exc |-> "TypeError", val |-> None]
    ELSE IF ~IsNone(get_prefix_from_filename(The(ogg)))
    THEN [exc |-> "none", val |-> get_prefix_from_filename(The(ogg))]
    ELSE IF IsNone(mp3) THEN [exc |-> "TypeError", val |-> None]
    ELSE [exc |-> "none", val |-> get_prefix_from_filename(The(mp3))]

\* Word.pronunciations
pronunciations(slot) ==
    IF IsNone(slot) THEN Ret(None, slot)
    ELSE
    LET phon == Tree(slot).phon
        audio == Tree(slot).audio
        both == ~IsNone(phon.br) /\ ~IsNone(phon.am)
        \* second try block: the first missing element ends it
        gotBrOgg == ~IsNone(audio.brOgg)
        gotAmOgg == gotBrOgg /\ ~IsNone(audio.amOgg)
        gotBrMp3 == gotAmOgg /\ ~IsNone(audio.brMp3)
        gotAmMp3 == gotBrMp3 /\ ~IsNone(audio.amMp3)
        britain == [prefix |-> IF both THEN Some("BrE") ELSE None,
                    ipa |-> IF both THEN phon.br ELSE None,
                    ogg |-> IF gotBrOgg THEN audio.brOgg ELSE None,
                    mp3 |-> IF gotBrMp3 THEN audio.brMp3 ELSE None]
        america == [prefix |-> IF both THEN Some("nAmE") ELSE None,
                    ipa |-> IF both THEN phon.am ELSE None,
                    ogg |-> IF gotAmOgg THEN audio.amOgg ELSE None,
                    mp3 |-> IF gotAmMp3 THEN audio.amMp3 ELSE None]
        brInfer == IsNone(britain.prefix) /\ (Truthy(britain.ogg) \/ Truthy(britain.mp3))
        amInfer == IsNone(america.prefix) /\ (Truthy(america.ogg) \/ Truthy(america.mp3))
        brPrefix == prefix_from_files(britain.ogg, britain.mp3)
        amPrefix == prefix_from_files(america.ogg, america.mp3)
    IN  IF brInfer /\ brPrefix.exc # "none" THEN Raise(brPrefix.exc, slot)
        ELSE IF amInfer /\ amPrefix.exc # "none" THEN Raise(amPrefix.exc, slot)
        ELSE Ret(Some(<<IF brInfer THEN [britain EXCEPT !.prefix = brPrefix.val] ELSE britain,
                        IF amInfer THEN [america EXCEPT !.prefix = amPrefix.val] ELSE america>>),
                 slot)

\* dict entry for an optional field: {key: value}, or {} when the element is absent
Opt(key, o) == IF IsNone(o) THEN EmptyDict ELSE key :> The(o)

\* Word.extract_id over the 'a' elements of a region: [exc, val]
get_references(slot, anchors) ==
    IF IsNone(slot) THEN [exc |-> "none", val |-> None]
    ELSE IF \E i \in 1..Len(anchors) : IsNone(anchors[i].href)
    THEN [exc |-> "KeyError", val |-> None]           \* tag.attrs['href']
    ELSE [exc |-> "none",
          val |-> Some([i \in 1..Len(anchors) |->
                           [id |-> extract_id(The(anchors[i].href)),
                            name |-> anchors[i].text]])]

\* Word.references
references(slot) ==
    IF IsNone(slot) THEN Ret(None, slot)
    ELSE IF IsNone(Tree(slot).header) THEN Raise("IndexError", slot)
    ELSE LET r == get_references(slot, The(Tree(slot).header).xrefs)
         IN  IF r.exc # "none" THEN Raise(r.exc, slot) ELSE Ret(r.val, slot)

RECURSIVE group_senses(_)
group_senses(groups) ==
    IF Len(groups) = 0 THEN <<>> ELSE Head(groups).senses \o group_senses(Tail(groups))

\* the '.shcut-g' children of all '.senses_multiple' containers
RECURSIVE namespace_tags(_)
namespace_tags(multi) ==
    IF Len(multi) = 0 THEN <<>> ELSE Head(multi).groups \o namespace_tags(Tail(multi))

\* the '.sense' elements below '.senses_multiple' containers
RECURSIVE multi_senses(_)
multi_senses(multi) ==
    IF Len(multi) = 0 THEN <<>>
    ELSE group_senses(Head(multi).groups) \o Head(multi).senses \o multi_senses(Tail(multi))

\* the '.sense' elements below '.sense_single' containers
RECURSIVE single_senses(_)
single_senses(single) ==
    IF Len(single) = 0 THEN <<>> ELSE Head(single).senses \o single_senses(Tail(single))

\* Word._parse_definition: [exc, val]
parse_definition(slot, sense) ==
    IF IsNone(slot) THEN [exc |-> "none", val |-> None]
    ELSE LET refs == get_references(slot, sense.xrefs)
         IN  IF refs.exc # "none" THEN [exc |-> refs.exc, val |-> None]
             ELSE [exc |-> "none",
                   val |-> Some(Opt("property", sense.grammar)
                                @@ Opt("label", sense.labels)
                                @@ Opt("refer", sense.disg)
                                @@ (IF Len(The(refs.val)) > 0
                                    THEN "references" :> The(refs.val) ELSE EmptyDict)
                                @@ Opt("description", sense.def)
                                @@ ("examples" :> sense.examples)
                                @@ ("extra_example" :> sense.unx))]

\* [cls._parse_definition(tag) for tag in senses]: [exc, val]
RECURSIVE parse_definitions(_, _)
parse_definitions(slot, senses) ==
    IF Len(senses) = 0 THEN [exc |-> "none", val |-> <<>>]
    ELSE LET d == parse_definition(slot, Head(senses))
             rest == parse_definitions(slot, Tail(senses))
         IN  IF d.exc # "none" THEN [exc |-> d.exc, val |-> <<>>]
             ELSE IF rest.exc # "none" THEN rest
             ELSE [exc |-> "none", val |-> <<The(d.val)>> \o rest.val]

\* the loop over the namespace tags of Word.definition_full: [exc, val]
RECURSIVE namespaces_loop(_, _)
namespaces_loop(slot, groups) ==
    IF Len(groups) = 0 THEN [exc |-> "none", val |-> <<>>]
    ELSE LET d == parse_definitions(slot, Head(groups).senses)
             rest == namespaces_loop(slot, Tail(groups))
         IN  IF d.exc # "none" THEN [exc |-> d.exc, val |-> <<>>]
             ELSE IF rest.exc # "none" THEN rest
             ELSE [exc |-> "none",
                   val |-> <<[namespace |-> Head(groups).label, definitions |-> d.val]>>
                           \o rest.val]

\* definition_full falling back to the single-sense containers whenever the
\* multi-sense containers hold no sense
definition_full_by_senses(slot) ==
    IF IsNone(slot) THEN Ret(None, slot)
    ELSE LET tree == Tree(slot)
             byNamespace == namespaces_loop(slot, namespace_tags(tree.multi))
             def_body_senses == IF Len(multi_senses(tree.multi)) = 0
                                THEN single_senses(tree.single)
                                ELSE multi_senses(tree.multi)
             global == parse_definitions(slot, def_body_senses)
         IN  IF byNamespace.exc # "none" THEN Raise(byNamespace.exc, slot)
             ELSE IF Len(byNamespace.val) > 0 THEN Ret(Some(byNamespace.val), slot)
             ELSE IF global.exc # "none" THEN Raise(global.exc, slot)
             ELSE Ret(Some(<<[namespace |-> Some(<<"__GLOBAL__">>),
                              definitions |-> global.val]>>), slot)

\* Word.definition_full
definition_full(slot) ==
    IF IsNone(slot) THEN Ret(None, slot)
    ELSE LET tree == Tree(slot)
             byNamespace == namespaces_loop(slot, namespace_tags(tree.multi))
             def_body_senses == IF Len(tree.multi) = 0 THEN single_senses(tree.single)
                                ELSE multi_senses(tree.multi)
             global == parse_definitions(slot, def_body_senses)
         IN  IF byNamespace.exc # "none" THEN Raise(byNamespace.exc, slot)
             ELSE IF Len(byNamespace.val) > 0 THEN Ret(Some(byNamespace.val), slot)
             ELSE IF global.exc # "none" THEN Raise(global.exc, slot)
             ELSE Ret(Some(<<[namespace |-> Some(<<"__GLOBAL__">>),
                              definitions |-> global.val]>>), slot)

\* Word.definitions
definitions(slot, full) ==
    IF IsNone(slot) THEN Ret(None, slot)
    ELSE IF ~full
    THEN LET senses == SelectSeq(multi_senses(Tree(slot).multi), LAMBDA s : ~IsNone(s.def))
         IN  Ret(Some([i \in 1..Len(senses) |-> The(senses[i].def)]), slot)
    ELSE definition_full(slot)

\* Word.examples
examples(slot) ==
    IF IsNone(slot) THEN Ret(None, slot)
    ELSE Ret(Some(concat([i \in 1..Len(multi_senses(Tree(slot).multi)) |->
                             multi_senses(Tree(slot).multi)[i].examples])), slot)

\* the loop of Word.phrasal_verbs: [exc, val]
RECURSIVE phrasal_verbs_loop(_)
phrasal_verbs_loop(anchors) ==
    IF Len(anchors) = 0 THEN [exc |-> "none", val |-> <<>>]
    ELSE IF IsNone(Head(anchors).xh) THEN [exc |-> "IndexError", val |-> <<>>]
    ELSE IF IsNone(Head(anchors).href) THEN [exc |-> "KeyError", val |-> <<>>]
    ELSE LET rest == phrasal_verbs_loop(Tail(anchors))
         IN  IF rest.exc # "none" THEN rest
             ELSE [exc |-> "none",
                   val |-> <<[name |-> The(Head(anchors).xh),
                              id |-> extract_id(The(Head(anchors).href))]>> \o rest.val]

\* Word.phrasal_verbs
phrasal_verbs(slot) ==
    IF IsNone(slot) THEN Ret(None, slot)
    ELSE LET r == phrasal_verbs_loop(Tree(slot).pv_links)
         IN  IF r.exc # "none" THEN Raise(r.exc, slot) ELSE Ret(Some(r.val), slot)

\* the definitions of one idiom block (oxford.py, lines 515-538): [exc, val]
RECURSIVE idiom_definitions(_, _)
idiom_definitions(slot, senses) ==
    IF Len(senses) = 0 THEN [exc |-> "none", val |-> <<>>]
    ELSE LET s == Head(senses)
             refs == get_references(slot, s.xrefs)
             rest == idiom_definitions(slot, Tail(senses))
         IN  IF refs.exc # "none" THEN [exc |-> refs.exc, val |-> <<>>]
             ELSE IF rest.exc # "none" THEN rest
             ELSE [exc |-> "none",
                   val |-> <<Opt("description", s.def) @@ Opt("label", s.labels)
                             @@ Opt("refer", s.disg)
                             @@ (IF Len(The(refs.val)) > 0
                                 THEN "references" :> The(refs.val) ELSE EmptyDict)
                             @@ ("examples" :> s.examples)>> \o rest.val]

\* senses.select(field)[0] over the senses of an idiom block: the first present
RECURSIVE first_in_senses(_, _)
first_in_senses(senses, field) ==
    IF Len(senses) = 0 THEN None
    ELSE IF ~IsNone(Head(senses)[field]) THEN Head(senses)[field]
    ELSE first_in_senses(Tail(senses), field)

\* idiom_tag.select(sel)[0]: selectors match at any depth, so the block's own
\* element comes first and the elements inside its '.sense' children after it
block_first(b, field) ==
    IF ~IsNone(b[field]) THEN b[field] ELSE first_in_senses(b.senses, field)

RECURSIVE senses_xrefs(_)
senses_xrefs(senses) ==
    IF Len(senses) = 0 THEN <<>> ELSE Head(senses).xrefs \o senses_xrefs(Tail(senses))

\* the loop over the idiom blocks of Word.idioms: [exc, val]
RECURSIVE idioms_loop(_, _)
idioms_loop(slot, blocks) ==
    IF Len(blocks) = 0 THEN [exc |-> "none", val |-> <<>>]
    ELSE LET b == Head(blocks)
             refs == get_references(slot, b.xrefs \o senses_xrefs(b.senses))
             defs == idiom_definitions(slot, b.senses)
             rest == idioms_loop(slot, Tail(blocks))
         IN  IF IsNone(b.idml) /\ IsNone(b.idm) THEN [exc |-> "IndexError", val |-> <<>>]
             ELSE IF refs.exc # "none" THEN [exc |-> refs.exc, val |-> <<>>]
             ELSE IF defs.exc # "none" THEN [exc |-> defs.exc, val |-> <<>>]
             ELSE IF rest.exc # "none" THEN rest
             ELSE [exc |-> "none",
                   val |-> <<[name |-> IF IsNone(b.idml) THEN The(b.idm) ELSE The(b.idml),
                              summary |-> Opt("label", block_first(b, "labels"))
                                          @@ Opt("refer", block_first(b, "disg"))
                                          @@ (IF Len(The(refs.val)) > 0
                                              THEN "references" :> The(refs.val)
                                              ELSE EmptyDict),
                              definitions |-> defs.val]>> \o rest.val]

\* Word.idioms
idioms(slot) ==
    IF IsNone(slot) THEN Raise("AttributeError", slot)      \* None.select
    ELSE LET r == idioms_loop(slot, Tree(slot).idiom_blocks)
         IN  IF r.exc # "none" THEN Raise(r.exc, slot) ELSE Ret(Some(r.val), slot)

\* the extraction operations Word.info calls, by name
Field(op, slot) ==
    CASE op = "id" -> id(slot)
      [] op = "name" -> name(slot)
      [] op = "wordform" -> wordform(slot)
      [] op = "property_global" -> property_global(slot)
      [] op = "pronunciations" -> pronunciations(slot)
      [] op = "references" -> references(slot)
      [] op = "definitions" -> definitions(slot, FALSE)
      [] op = "definitions(full=True)" -> definitions(slot, TRUE)
      [] op = "definition_full" -> definition_full(slot)
      [] op = "examples" -> examples(slot)
      [] op = "idioms" -> idioms(slot)
      [] op = "phrasal_verbs" -> phrasal_verbs(slot)
      [] op = "verb_forms" -> verb_forms(slot)
      [] op = "other_results" -> other_results(slot)

\* the dict literal of Word.info (oxford.py, lines 550-559): <<key, operation>>
\* in evaluation order
InfoFields ==
    << <<"id", "id">>, <<"name", "name">>, <<"wordform", "wordform">>,
       <<"pronunciations", "pronunciations">>, <<"property", "property_global">>,
       <<"definitions", "definitions(full=True)">>, <<"idioms", "idioms">>,
       <<"other_results", "other_results">> >>

\* the verb-only keys (oxford.py, lines 568-569)
VerbFields == << <<"phrasal_verbs", "phrasal_verbs">>, <<"verb_forms", "verb_forms">> >>

\* evaluate the fields in order, each on the document the one before left;
\* the first exception ends it: [exc, word, doc]
RECURSIVE eval_fields(_, _, _)
eval_fields(slot, fields, word) ==
    IF Len(fields) = 0 THEN [exc |-> "none", word |-> word, doc |-> slot]
    ELSE Only({ IF r.exc # "none" THEN [exc |-> r.exc, word |-> word, doc |-> r.doc]
                ELSE eval_fields(r.doc, Tail(fields), word @@ (Head(fields)[1] :> r.val))
                : r \in {Field(Head(fields)[2], slot)} })

\* word.pop(key, None)
pop(word, key) == [k \in DOMAIN word \ {key} |-> word[k]]

info_is_verb_any(wf) == ~IsNone(wf)

\* word['wordform'] == 'verb'
info_is_verb(wf) == wf = Some(<<"verb">>)

\* the two pops of Word.info (oxford.py, lines 561-565)
info_pops(word) ==
    LET p1 == IF ~Truthy(word["property"]) THEN pop(word, "property") ELSE word
    IN  IF ~Truthy(word["other_results"]) THEN pop(p1, "other_results") ELSE p1

\* Word.info
info(slot) ==
    IF IsNone(slot) THEN Ret(None, slot)
    ELSE Only({
        IF first.exc # "none" THEN Raise(first.exc, first.doc)
        ELSE Only({
            IF ~info_is_verb(word["wordform"]) THEN Ret(Some(word), first.doc)
            ELSE Only({ IF verb.exc # "none" THEN Raise(verb.exc, verb.doc)
                        ELSE Ret(Some(verb.word), verb.doc)
                        : verb \in {eval_fields(first.doc, VerbFields, word)} })
            : word \in {info_pops(first.word)} })
        : first \in {eval_fields(slot, InfoFields, EmptyDict)} })

-----------------------------------------------------------------------------
\* The state machine: one action per public operation of Word.
\*
\*  soup_data  Word.soup_data
\*  calls      the number of get calls made so far
\*  fetched    the most recent get call: None, or [word, is_search, url, status, exc]
\*  last       the most recent call of any operation: [op, exc, val]
\*  memo       None, or the outcome [op, exc, val] of one earlier extraction call
\*             on the current document, kept to compare a later call with

ExtractOps ==
    {"id", "name", "wordform", "property_global", "pronunciations", "references",
     "definitions", "definition_full", "examples", "idioms", "phrasal_verbs",
     "verb_forms", "other_results", "info"}

\* a call site before its run: pc is where it stands, word the word it looks
\* up, got and read the positions of its get and its info among all the calls
\* made, doc what its get stored, ret the outcome of its info
NotStarted ==
    [pc |-> "start", word |-> None, got |-> 0, read |-> 0, doc |-> None,
     ret |-> Ret(None, None)]

Init ==
    /\ soup_data = None          \* oxford.py, line 84
    /\ calls = 0
    /\ fetched = None
    /\ last = [op |-> "init", exc |-> "none", val |-> None]
    /\ memo = None
    /\ callers = [c \in Callers |-> NotStarted]

\* a caller runs Word.get(word, headers, is_search) as call number calls + 1
GetCall(limit) ==
    /\ calls < limit
    /\ \E word \in Words, is_search \in BOOLEAN, k \in 1..Len(Responses) :
         \E r \in {get(soup_data, Responses[k], calls + 1)} :
             /\ soup_data' = r.doc
             /\ calls' = calls + 1
             /\ fetched' = Some([word |-> word, is_search |-> is_search,
                                 url |-> get_url(word, is_search),
                                 status |-> Responses[k].status, exc |-> r.exc])
             /\ last' = Observed("get", r)
             /\ memo' = None
             /\ UNCHANGED callers

Get == GetCall(MaxGets)

\* a caller runs one extraction operation, whose outcome is r
Extract(op, outcome) ==
    \E r \in {outcome} :
        /\ soup_data' = r.doc
        /\ last' = Observed(op, r)
        /\ UNCHANGED <<calls, fetched, memo, callers>>

Id == Extract("id", id(soup_data))
Name == Extract("name", name(soup_data))
Wordform == Extract("wordform", wordform(soup_data))
PropertyGlobal == Extract("property_global", property_global(soup_data))
Pronunciations == Extract("pronunciations", pronunciations(soup_data))
References == Extract("references", references(soup_data))
Definitions == Extract("definitions", definitions(soup_data, FALSE))
DefinitionFull == Extract("definition_full", definition_full(soup_data))
Examples == Extract("examples", examples(soup_data))
Idioms == Extract("idioms", idioms(soup_data))
PhrasalVerbs == Extract("phrasal_verbs", phrasal_verbs(soup_data))
VerbForms == Extract("verb_forms", verb_forms(soup_data))
OtherResults == Extract("other_results", other_results(soup_data))
Info == Extract("info", info(soup_data))

Next ==
    \/ Get
    \/ Id
    \/ Name
    \/ Wordform
    \/ PropertyGlobal
    \/ Pronunciations
    \/ References
    \/ Definitions
    \/ DefinitionFull
    \/ Examples
    \/ Idioms
    \/ PhrasalVerbs
    \/ VerbForms
    \/ OtherResults
    \/ Info

Spec == Init /\ [][Next]_vars

\* One fetch, then extraction calls of which one outcome is remembered.
GetFirst == GetCall(1)

Remember ==
    /\ memo = None
    /\ last.op \in ExtractOps
    /\ memo' = Some(last)
    /\ UNCHANGED <<soup_data, calls, fetched, last, callers>>

Call ==
    \E op \in ExtractOps :
        Extract(op, IF op = "info" THEN info(soup_data) ELSE Field(op, soup_data))

NextRepeat == GetFirst \/ Call \/ Remember

SpecRepeat == Init /\ [][NextRepeat]_vars

\* Two call sites share the class: each runs Word.get(word, ...) and, when get
\* returned, Word.info(); an exception of get ends the run. The calls of the
\* two interleave in any order.

\* the number of calls a call site has made
Steps(c) ==
    IF callers[c].pc = "start" THEN 0
    ELSE IF callers[c].pc \in {"fetched", "raised"} THEN 1
    ELSE 2

\* the position the next call takes among all calls made
Position == Steps("A") + Steps("B") + 1

\* a slot of the call site's own, holding what its own get stored
slot_read_own(own, shared) == own

\* the slot a classmethod run by a call site reads: cls.soup_data, the one
\* attribute of the class, whatever document that call site's own get stored
slot_read(own, shared) == shared

CallerGet(c) ==
    /\ callers[c].pc = "start"
    /\ \E word \in Words, is_search \in BOOLEAN :
         \E k \in 1..Len(WordResponses(word)) :
         \E r \in {get(soup_data, WordResponses(word)[k], calls + 1)} :
             /\ soup_data' = r.doc
             /\ calls' = calls + 1
             /\ fetched' = Some([word |-> word, is_search |-> is_search,
                                 url |-> get_url(word, is_search),
                                 status |-> WordResponses(word)[k].status, exc |-> r.exc])
             /\ last' = Observed("get", r)
             /\ memo' = None
             /\ callers' = [callers EXCEPT ![c] =
                    [pc |-> IF r.exc = "none" THEN "fetched" ELSE "raised",
                     word |-> Some(word), got |-> Position, read |-> 0,
                     doc |-> get(None, WordResponses(word)[k], calls + 1).doc,
                     ret |-> Ret(None, None)]]

CallerInfo(c) ==
    /\ callers[c].pc = "fetched"
    /\ \E r \in {info(slot_read(callers[c].doc, soup_data))} :
         /\ soup_data' = r.doc
         /\ last' = Observed("info", r)
         /\ callers' = [callers EXCEPT ![c].pc = "done", ![c].read = Position,
                                       ![c].ret = r]
         /\ UNCHANGED <<calls, fetched, memo>>

NextTwo == \E c \in Callers : CallerGet(c) \/ CallerInfo(c)

SpecTwo == Init /\ [][NextTwo]_vars

-----------------------------------------------------------------------------
\* Properties

HasDoc == ~IsNone(soup_data)
Fetched == The(fetched)
Returned(op) == last.op = op /\ last.exc = "none" /\ ~IsNone(last.val)

\* C1: a get whose response status is 404 raises WordNotFound whatever the body
\* holds, and stores nothing of that response: from then until the next get the
\* slot holds no document parsed from it, so info() has no Entry of it to return.
C1_NotFoundOn404 ==
    (~IsNone(fetched) /\ Fetched.status = 404)
        => /\ Fetched.exc = "WordNotFound"
           /\ (IsNone(soup_data) \/ The(soup_data).src # calls)
           /\ (Returned("info") => The(soup_data).src # calls)

\* get answered 404 on a slot that already held a document, then info()
C1_Witness ==
    /\ ~IsNone(fetched) /\ Fetched.status = 404 /\ Fetched.is_search
    /\ last.op = "info" /\ HasDoc

\* C2: a response that is not a 404 and whose results heading has a text that
\* begins with 'No exact match found' makes get raise WordNotFound, whatever
\* the heading is made of.
C2_NoExactRaisesNotFound ==
    (/\ last.op = "get" /\ Fetched.status # 404 /\ HasDoc
     /\ ~IsNone(Tree(soup_data).heading)
     /\ startswith_no_exact(text(The(Tree(soup_data).heading))))
        => last.exc = "WordNotFound"

\* C3: while the slot is empty every extraction operation returns None and
\* raises nothing.
C3_NoneBeforeFetch ==
    (IsNone(soup_data) /\ last.op \in ExtractOps)
        => (last.exc = "none" /\ IsNone(last.val))

\* C4: after a get that returned, whatever regions the document lacks, no
\* extraction operation raises: a field the page lacks is omitted or null.
C4_NoFieldError ==
    (~IsNone(fetched) /\ Fetched.exc = "none" /\ last.op \in ExtractOps)
        => last.exc = "none"

\* C5: on one fetched document an extraction operation called again, with any
\* other extraction calls in between, has the outcome it had before.
C5_RepeatSame ==
    (~IsNone(memo) /\ HasDoc /\ last.op = The(memo).op)
        => (last.exc = The(memo).exc /\ last.val = The(memo).val)

\* C6: an Entry returned by info() has the keys 'phrasal_verbs' and
\* 'verb_forms' when its wordform - the wordform extracted from the document -
\* is exactly 'verb', and has neither key otherwise.
C6_VerbKeys ==
    Returned("info") =>
        LET e == The(last.val)
        IN  /\ e["wordform"] = wordform(soup_data).val
            /\ e["wordform"] = Some(<<"verb">>)
                   => {"phrasal_verbs", "verb_forms"} \subseteq DOMAIN e
            /\ e["wordform"] # Some(<<"verb">>)
                   => {"phrasal_verbs", "verb_forms"} \cap DOMAIN e = {}

\* info() returned the Entry of a verb whose verb_forms value is null
C6_Witness ==
    /\ Returned("info")
    /\ "verb_forms" \in DOMAIN The(last.val)
    /\ IsNone(The(last.val)["verb_forms"])
    /\ Len(Tree(soup_data).verb_rows) > 0

\* the regional hint of an audio locator: "BrE", "NAmE" or "none"
HintOf(o) ==
    IF IsNone(o) THEN "none"
    ELSE IF Contains(The(o), "_gb_") THEN "BrE"
    ELSE IF Contains(The(o), "_us_") THEN "NAmE"
    ELSE "none"

\* the prefix the filenames of a record stand for: the ogg filename decides,
\* the mp3 filename when the ogg filename has no hint
HintedPrefix(rec) ==
    IF HintOf(rec.ogg) # "none" THEN Some(HintOf(rec.ogg))
    ELSE IF HintOf(rec.mp3) # "none" THEN Some(HintOf(rec.mp3))
    ELSE None

\* C7: in each record pronunciations() returns: with no phonetic text and an
\* audio locator, the prefix is 'BrE' for a filename with '_gb_', 'NAmE' for one
\* with '_us_', null otherwise; with phonetic text the prefix is the region's
\* own, whatever the filenames say.
C7_PrefixFromFilename ==
    Returned("pronunciations") =>
        \A i \in 1..2 :
            LET rec == The(last.val)[i]
            IN  /\ (IsNone(rec.ipa) /\ (~IsNone(rec.ogg) \/ ~IsNone(rec.mp3)))
                       => rec.prefix = HintedPrefix(rec)
                /\ ~IsNone(rec.ipa)
                       => rec.prefix = (IF i = 1 THEN Some("BrE") ELSE Some("nAmE"))

\* pronunciations() inferred 'NAmE' for the first region from a '_us_' filename
C7_Witness ==
    /\ Returned("pronunciations")
    /\ IsNone(The(last.val)[1].ipa)
    /\ The(last.val)[1].prefix = Some("NAmE")
    /\ The(last.val)[2].prefix = Some("BrE")

\* a list item has usable text: some text run of its span is not only whitespace
Usable(item) ==
    ~IsNone(item.span) /\ \E k \in 1..Len(The(item.span)) : Len(strip(The(item.span)[k])) > 0

\* C8: for every heading/list pair other_results() emits one single-key group,
\* in document order, holding one record per list item with usable text, in
\* item order, none for an item of only whitespace, each record's id being the
\* final path segment of a link of the item that gave its name.
C8_OtherResults ==
    Returned("other_results") =>
        LET box == The(Tree(soup_data).related)
            groups == The(last.val)
        IN  /\ Len(groups) = Min(Len(box.dts), Len(box.dds))
            /\ \A k \in 1..Len(groups) :
                 LET items == SelectSeq(box.dds[k], Usable)
                     records == groups[k][box.dts[k]]
                 IN  /\ DOMAIN groups[k] = {box.dts[k]}
                     /\ Len(records) = Len(items)
                     /\ \A j \in 1..Len(records) :
                          /\ records[j].name =
                                 join([m \in 1..Len(The(items[j].span)) |->
                                          strip(The(items[j].span)[m])])
                          /\ \E m \in 1..Len(items[j].links) :
                                 /\ ~IsNone(items[j].links[m].href)
                                 /\ records[j].id =
                                        extract_id(The(items[j].links[m].href))

\* C9: after every get the slot is empty or holds the document of the most
\* recent get call.
C9_GetResets == IsNone(soup_data) \/ The(soup_data).src = calls

\* C10: a document in the slot carries none of the title attributes that get
\* removes.
C10_Sanitized ==
    HasDoc => \A i \in 1..Len(SanitizedTitles) :
                  SanitizedTitles[i] \notin Tree(soup_data).titled

\* the definition record d is the one of the sense element s
IsSense(d, s) ==
    /\ d["examples"] = s.examples
    /\ d["extra_example"] = s.unx
    /\ IF IsNone(s.def) THEN "description" \notin DOMAIN d
       ELSE "description" \in DOMAIN d /\ d["description"] = The(s.def)
    /\ IF IsNone(s.grammar) THEN "property" \notin DOMAIN d
       ELSE "property" \in DOMAIN d /\ d["property"] = The(s.grammar)

\* the definition records defs are those of the sense elements senses, in order
AreSenses(defs, senses) ==
    /\ Len(defs) = Len(senses)
    /\ \A j \in 1..Len(defs) : IsSense(defs[j], senses[j])

\* C11: the list definition_full() returns on a fetched document is never
\* empty: with namespace headings it has one group per heading element, in
\* document order, labelled with the heading text or null and holding the
\* senses under that element; with none it is one group '__GLOBAL__' holding
\* the senses of the multi-sense containers when there is such a container,
\* and those of the single-sense containers only when there is none.
C11_DefinitionFull ==
    Returned("definition_full") =>
        LET tree == Tree(soup_data)
            groups == The(last.val)
            tags == namespace_tags(tree.multi)
        IN  /\ Len(groups) > 0
            /\ Len(tags) > 0 =>
                   /\ Len(groups) = Len(tags)
                   /\ \A i \in 1..Len(tags) :
                          /\ groups[i].namespace = tags[i].label
                          /\ AreSenses(groups[i].definitions, tags[i].senses)
            /\ Len(tags) = 0 =>
                   /\ Len(groups) = 1
                   /\ groups[1].namespace = Some(<<"__GLOBAL__">>)
                   /\ AreSenses(groups[1].definitions,
                                IF Len(tree.multi) > 0
                                THEN concat([i \in 1..Len(tree.multi) |-> tree.multi[i].senses])
                                ELSE concat([i \in 1..Len(tree.single) |-> tree.single[i].senses]))

\* definition_full() on a page with an empty multi-sense container and a
\* single-sense container that holds a sense: one '__GLOBAL__' group, no senses
C11_Witness ==
    /\ Returned("definition_full")
    /\ Len(Tree(soup_data).multi) > 0
    /\ Len(single_senses(Tree(soup_data).single)) > 0
    /\ The(last.val)[1].namespace = Some(<<"__GLOBAL__">>)
    /\ The(last.val)[1].definitions = <<>>

\* the other call site
Other(c) == CHOOSE b \in Callers : b # c

\* the Entry info() extracts from a document
EntryOf(doc) == info(doc).val

\* C12: with two call sites each running get(word) and then info(): an info()
\* that directly follows its own call site's get - as in serialised runs -
\* returns the Entry of that call site's own word; an info() that directly
\* follows a get of the other call site which came after its own get and stored
\* a document returns the Entry of the other call site's word.
C12_SharedSlot ==
    \A c \in Callers :
        LET me == callers[c]
            other == callers[Other(c)]
        IN  (me.pc = "done" /\ me.ret.exc = "none") =>
                /\ me.read = me.got + 1 => me.ret.val = EntryOf(me.doc)
                /\ (/\ other.got > me.got /\ me.read = other.got + 1
                    /\ other.pc # "raised")
                       => me.ret.val = EntryOf(other.doc)

\* B's get ran between A's get and A's info, for another word, and A's info()
\* returned the Entry of B's word
C12_Witness ==
    /\ callers["A"].pc = "done" /\ callers["A"].ret.exc = "none"
    /\ callers["A"].got = 1 /\ callers["B"].got = 2 /\ callers["A"].read = 3
    /\ callers["A"].word = Some("go") /\ callers["B"].word = Some("xyzzy")
    /\ The(callers["A"].ret.val)["id"] = Some(<<"xyzzy", "_1">>)
    /\ callers["A"].ret.val # EntryOf(callers["A"].doc)

=============================================================================
